---------------------------- MODULE Spec2Model ----------------------------
(***************************************************************************)
(* Model of src/src/app.py (EEZO task dashboard): the sort engine          *)
(* sort_dataframe and the spreadsheet export create_excel_gantt_chart.     *)
(*                                                                         *)
(* Representation.                                                         *)
(*  - A date (pandas Timestamp at midnight, as load_data parses them) is   *)
(*    its proleptic Gregorian ordinal (datetime.date.toordinal()).         *)
(*  - A DataFrame is the sequence of its rows in index order; a row is a   *)
(*    record.  Column names are written in ASCII:                          *)
(*      start = "開始日", end = "終了日", assignee = "担当者",             *)
(*      category = "カテゴリ", title = "タスク", quarter = "四半期".       *)
(*  - The module's strings are ASCII, so the Japanese literals of the      *)
(*    source are written with stand-ins:                                   *)
(*      "Matsunaga" = 松永, "Takayama" = 高山,                             *)
(*      "Platform" = プラットフォーム実装, "UXFlow" = UX動線,              *)
(*      "Content" = 商品コンテンツ, "Promotion" = 集客販促,                *)
(*      "DataUse" = データ活用, "Gantt" = ガントチャート,                  *)
(*      "Legend" = 凡例, "NoData" = データがありません, "* " = "★ ".      *)
(*  - A colour string that the code parses ("#3498db") is the sequence of  *)
(*    its characters; one that it builds with an f-string is a string.     *)
(***************************************************************************)
EXTENDS Integers, Sequences, FiniteSets, TLC

VARIABLES
    df,              \* the task rows handed to the function under study
    sort_by,         \* sort_dataframe argument ("none" before the first call)
    sort_order,      \* sort_dataframe argument
    category_order,  \* sort_dataframe argument
    assignee_order,  \* sort_dataframe argument
    order_col,       \* the helper rank column of lines 122/132, in row order
    result_df,       \* value returned by sort_dataframe
    granularity,     \* create_excel_gantt_chart argument
    color_by,        \* create_excel_gantt_chart argument
    excel,           \* outcome of create_excel_gantt_chart
    controls,        \* values of the dashboard's controls (the request)
    dashboard_df,    \* filtered_df of update_dashboard, as handed to the chart
    download_df,     \* filtered_df of download_excel, as handed to the export
    pc               \* "input" | "sorted" | "exported" | "rendered" |
                     \* "downloaded"

vars == <<df, sort_by, sort_order, category_order, assignee_order, order_col,
          result_df, granularity, color_by, excel, controls, dashboard_df,
          download_df, pc>>

sortVars == <<sort_by, sort_order, category_order, assignee_order, order_col,
              result_df>>

excelVars == <<granularity, color_by, excel>>

appVars == <<controls, dashboard_df, download_df>>

(***************************************************************************)
(* Bounds of the model.                                                    *)
(***************************************************************************)
MaxTasks == 2

LongOrderLen == 1000

(***************************************************************************)
(* Generic helpers.                                                        *)
(***************************************************************************)
Range(s) == {s[i] : i \in DOMAIN s}

Min2(a, b) == IF a <= b THEN a ELSE b

SeqMin(s) == CHOOSE v \in Range(s) : \A w \in Range(s) : v <= w

SeqMax(s) == CHOOSE v \in Range(s) : \A w \in Range(s) : v >= w

(***************************************************************************)
(* Calendar arithmetic of datetime / pandas.Timestamp.                     *)
(***************************************************************************)
is_leap(y) == (y % 4 = 0) /\ ((y % 100 # 0) \/ (y % 400 = 0))

days_before_year(y) ==
    (y - 1) * 365 + ((y - 1) \div 4) - ((y - 1) \div 100) + ((y - 1) \div 400)

days_in_month(y, m) ==
    IF m = 2 THEN (IF is_leap(y) THEN 29 ELSE 28)
    ELSE IF m \in {4, 6, 9, 11} THEN 30 ELSE 31

RECURSIVE days_before_month(_, _)
days_before_month(y, m) ==
    IF m = 1 THEN 0 ELSE days_before_month(y, m - 1) + days_in_month(y, m - 1)

ymd2ord(y, m, d) == days_before_year(y) + days_before_month(y, m) + d

\* year, month and day of an ordinal (datetime._ord2ymd)
ord2ymd(ord) ==
    LET n0   == ord - 1
        n400 == n0 \div 146097
        r400 == n0 % 146097
        n100 == r400 \div 36524
        r100 == r400 % 36524
        n4   == r100 \div 1461
        r4   == r100 % 1461
        n1   == r4 \div 365
        n    == r4 % 365
        y    == n400 * 400 + 1 + n100 * 100 + n4 * 4 + n1
    IN  IF n1 = 4 \/ n100 = 4
        THEN [year |-> y - 1, month |-> 12, day |-> 31]
        ELSE LET m == CHOOSE k \in 1..12 :
                          /\ days_before_month(y, k) <= n
                          /\ n < days_before_month(y, k) + days_in_month(y, k)
             IN  [year |-> y, month |-> m, day |-> n - days_before_month(y, m) + 1]

\* Timestamp.weekday(): Monday = 0 ... Sunday = 6
weekday(ord) == (ord + 6) % 7

\* Timestamp.replace(day=1)
replace_day1(ord) == LET t == ord2ymd(ord) IN ymd2ord(t.year, t.month, 1)

(***************************************************************************)
(* Python string comparison (by code point) for the names of the model.    *)
(***************************************************************************)
CodePoints(s) ==
    CASE s = "Alpha"     -> <<65, 108, 112, 104, 97>>
      [] s = "Beta"      -> <<66, 101, 116, 97>>
      [] s = "Gamma"     -> <<71, 97, 109, 109, 97>>
      [] s = "Guest"     -> <<71, 117, 101, 115, 116>>
      [] s = "Matsunaga" -> <<77, 97, 116, 115, 117, 110, 97, 103, 97>>
      [] s = "Takayama"  -> <<84, 97, 107, 97, 121, 97, 109, 97>>

SeqLt(s, t) ==
    \E k \in 1..(Min2(Len(s), Len(t)) + 1) :
        /\ \A j \in 1..(k - 1) : s[j] = t[j]
        /\ \/ k > Len(s) /\ k <= Len(t)
           \/ k <= Len(s) /\ k <= Len(t) /\ s[k] < t[k]

StrLt(a, b) == SeqLt(CodePoints(a), CodePoints(b))

\* the < of two values of a column: dates and ranks are numbers ("num"),
\* assignee names are strings ("str")
value_lt(a, b, kind) == IF kind = "str" THEN StrLt(a, b) ELSE a < b

(***************************************************************************)
(* sort_dataframe (lines 92-141).                                          *)
(***************************************************************************)
\* the rank given to a name that is not in the order list (lines 123, 133)
UNLISTED_RANK == 999

\* lambda x: order.index(x) if x in order else 999
custom_order(order, x) ==
    IF \E i \in 1..Len(order) : order[i] = x
    THEN (CHOOSE i \in 1..Len(order) :
              order[i] = x /\ \A j \in 1..(i - 1) : order[j] # x) - 1
    ELSE UNLISTED_RANK

\* result_df[field].apply(lambda ...): the helper column, one rank per row
order_column(rows, field, order) ==
    [i \in 1..Len(rows) |-> custom_order(order, rows[i][field])]

\* the codes pandas' lexsort_indexer gives a key column: Categorical(k,
\* ordered=True).codes, the position of each value among the sorted distinct
\* values, reversed (n - code - 1) for a descending key
key_codes(col, kind, asc) ==
    LET n == Cardinality(Range(col))
        code(i) == Cardinality({u \in Range(col) : value_lt(u, col[i], kind)})
    IN  [i \in 1..Len(col) |-> IF asc THEN code(i) ELSE n - code(i) - 1]

\* a sort that reverses rows equal on both keys
tie_break_reversed(i, j) == i > j

\* np.lexsort is stable: rows equal on both keys keep their positions' order
tie_break(i, j) == i < j

\* np.lexsort over (primary, secondary): the row index placed at each position
lexsort(k1, k2) ==
    LET n == Len(k1)
        before(i, j) == \/ k1[i] < k1[j]
                        \/ k1[i] = k1[j] /\ k2[i] < k2[j]
                        \/ k1[i] = k1[j] /\ k2[i] = k2[j] /\ tie_break(i, j)
    IN  [k \in 1..n |->
            CHOOSE i \in 1..n : Cardinality({j \in 1..n : before(j, i)}) = k - 1]

\* the direction applied to both keys
sort_ascending_both(ascending) == <<ascending, ascending>>

\* the ascending= argument of the three sort_values calls
sort_ascending(ascending) == <<ascending, TRUE>>

\* DataFrame.sort_values([c1, c2], ascending=[a1, a2]) on the two key columns
sort_values(rows, col1, kind1, col2, kind2, asc) ==
    LET ix == lexsort(key_codes(col1, kind1, asc[1]), key_codes(col2, kind2, asc[2]))
    IN  [k \in 1..Len(rows) |-> rows[ix[k]]]

Column(rows, field) == [i \in 1..Len(rows) |-> rows[i][field]]

\* result_df[name] = values
with_column(rows, name, values) ==
    [i \in 1..Len(rows) |-> rows[i] @@ (name :> values[i])]

\* the helper column left on the rows
drop_nothing(rows, name) == rows

\* result_df.drop(columns=[name])
drop_column(rows, name) ==
    [i \in 1..Len(rows) |->
        [f \in (DOMAIN rows[i]) \ {name} |-> rows[i][f]]]

\* the helper rank as the only sort key
sort_by_rank_only(rows, field, helper, order, ascending) ==
    LET tagged == with_column(rows, helper, order_column(rows, field, order))
        sorted == sort_values(tagged, Column(tagged, helper), "num",
                              Column(tagged, helper), "num",
                              sort_ascending(ascending))
    IN  drop_column(sorted, helper)

\* lines 122-129 and 132-139: rank column, sort_values, drop
sort_by_custom_order(rows, field, helper, order, ascending) ==
    LET tagged == with_column(rows, helper, order_column(rows, field, order))
        sorted == sort_values(tagged, Column(tagged, helper), "num",
                              Column(tagged, "start"), "num",
                              sort_ascending(ascending))
    IN  drop_column(sorted, helper)

sort_dataframe(rows, by, ord, cat_order, asg_order) ==
    LET ascending == (ord = "asc")
    IN  IF by = "start"
        THEN sort_values(rows, Column(rows, "start"), "num",
                         Column(rows, "assignee"), "str",
                         sort_ascending(ascending))
        ELSE IF by = "assignee"
        THEN sort_by_custom_order(rows, "assignee", "assignee_order",
                                  asg_order, ascending)
        ELSE IF by = "category"
        THEN sort_by_custom_order(rows, "category", "category_order",
                                  cat_order, ascending)
        ELSE rows

(***************************************************************************)
(* Colour configuration (lines 35-59) and hex_to_rgb (lines 290-293).      *)
(* A dict is the sequence of its (key, value) pairs in insertion order.    *)
(***************************************************************************)
CATEGORY_COLORS ==
    << <<"Platform",  <<"#", "3", "4", "9", "8", "d", "b">> >>,
       <<"UXFlow",    <<"#", "9", "b", "5", "9", "b", "6">> >>,
       <<"Content",   <<"#", "e", "7", "4", "c", "3", "c">> >>,
       <<"Promotion", <<"#", "f", "3", "9", "c", "1", "2">> >>,
       <<"DataUse",   <<"#", "2", "e", "c", "c", "7", "1">> >> >>

ASSIGNEE_COLORS ==
    << <<"Matsunaga", <<"#", "2", "9", "8", "0", "b", "9">> >>,
       <<"Takayama",  <<"#", "c", "0", "3", "9", "2", "b">> >> >>

\* the default of color_map.get at line 446
FALLBACK_COLOR == <<"#", "9", "9", "9", "9", "9", "9">>

\* dict.get(key, default)
dict_get(d, key, default) ==
    IF \E i \in 1..Len(d) : d[i][1] = key
    THEN d[CHOOSE i \in 1..Len(d) : d[i][1] = key][2]
    ELSE default

\* int(c, 16) of one character
hex_digit(c) ==
    CASE c = "0" -> 0  [] c = "1" -> 1  [] c = "2" -> 2  [] c = "3" -> 3
      [] c = "4" -> 4  [] c = "5" -> 5  [] c = "6" -> 6  [] c = "7" -> 7
      [] c = "8" -> 8  [] c = "9" -> 9
      [] c \in {"a", "A"} -> 10  [] c \in {"b", "B"} -> 11
      [] c \in {"c", "C"} -> 12  [] c \in {"d", "D"} -> 13
      [] c \in {"e", "E"} -> 14  [] c \in {"f", "F"} -> 15

\* str.lstrip("#")
RECURSIVE lstrip_hash(_)
lstrip_hash(cs) ==
    IF cs # <<>> /\ Head(cs) = "#" THEN lstrip_hash(Tail(cs)) ELSE cs

hex_to_rgb(hex_color) ==
    LET h == lstrip_hash(hex_color)
    IN  [k \in 1..3 |-> 16 * hex_digit(h[2 * k - 1]) + hex_digit(h[2 * k])]

UpperHex == <<"0", "1", "2", "3", "4", "5", "6", "7",
              "8", "9", "A", "B", "C", "D", "E", "F">>

\* f"{v:02X}"
format_02X(v) == UpperHex[(v \div 16) + 1] \o UpperHex[(v % 16) + 1]

\* f"{rgb[0]:02X}{rgb[1]:02X}{rgb[2]:02X}", the start_color of a PatternFill
rgb_string(rgb) == format_02X(rgb[1]) \o format_02X(rgb[2]) \o format_02X(rgb[3])

\* the category map whatever the call colours by
color_map_category_only(by) == CATEGORY_COLORS

\* line 327 (and 494): the map the call colours by
color_map_of(by) == IF by = "category" THEN CATEGORY_COLORS ELSE ASSIGNEE_COLORS

\* lines 445-452: the solid fill of a task's row
fill_color_of(task, by) ==
    rgb_string(hex_to_rgb(dict_get(color_map_of(by), task[by], FALLBACK_COLOR)))

(***************************************************************************)
(* Bucket axis of create_excel_gantt_chart (lines 329-349, 463-476).       *)
(***************************************************************************)
month_index(ord) == LET t == ord2ymd(ord) IN t.year * 12 + (t.month - 1)

month_start_of(mi) == ymd2ord(mi \div 12, (mi % 12) + 1, 1)

\* pd.date_range(start=, end=, freq=) for freq "D", "W-MON" and "MS": the
\* on-offset dates from start (rolled forward) through end; empty if none
date_range(start, end, freq) ==
    IF freq = "D"
    THEN [i \in 1..(end - start + 1) |-> start + (i - 1)]
    ELSE IF freq = "W-MON"
    THEN LET first == start + ((7 - weekday(start)) % 7)
             n     == IF first > end THEN 0 ELSE ((end - first) \div 7) + 1
         IN  [i \in 1..n |-> first + 7 * (i - 1)]
    ELSE LET first == IF ord2ymd(start).day = 1 THEN month_index(start)
                      ELSE month_index(start) + 1
             n     == IF month_start_of(first) > end THEN 0
                      ELSE month_index(end) - first + 1
         IN  [i \in 1..n |-> month_start_of(first + (i - 1))]

\* the first week starting on the first start date itself
week_start_unaligned(start_date) == start_date

\* the week taken to start on Sunday
week_start_sunday(start_date) == start_date - ((weekday(start_date) + 1) % 7)

\* line 340: start_date - timedelta(days=start_date.weekday())
week_start_of(start_date) == start_date - weekday(start_date)

\* lines 334-349: the dates heading the bucket columns
date_list_of(start_date, end_date, gran) ==
    IF gran = "day" THEN date_range(start_date, end_date, "D")
    ELSE IF gran = "week"
    THEN date_range(week_start_of(start_date), end_date, "W-MON")
    ELSE date_range(replace_day1(start_date), end_date, "MS")

\* lines 334-349: date_format, which no line reads
date_format_of(gran) ==
    IF gran = "day" THEN "%m/%d"
    ELSE IF gran = "week" THEN "%m/%d"
    ELSE "%Y/%m"

\* lines 334-349: header_format
header_format_of(gran) ==
    IF gran = "day" THEN "%m/%d\n(%a)"
    ELSE IF gran = "week" THEN "%m/%d"
    ELSE "%Y/%m"

TwoDigits(n) == ToString(n \div 10) \o ToString(n % 10)

DayAbbr == <<"Mon", "Tue", "Wed", "Thu", "Fri", "Sat", "Sun">>

\* Timestamp.strftime for the formats the source uses
strftime(ord, fmt) ==
    LET t == ord2ymd(ord)
    IN  CASE fmt = "%m/%d\n(%a)" ->
                 TwoDigits(t.month) \o "/" \o TwoDigits(t.day) \o "\n("
                     \o DayAbbr[weekday(ord) + 1] \o ")"
          [] fmt = "%m/%d" -> TwoDigits(t.month) \o "/" \o TwoDigits(t.day)
          [] fmt = "%Y/%m" -> ToString(t.year) \o "/" \o TwoDigits(t.month)
          [] fmt = "%Y/%m/%d" ->
                 ToString(t.year) \o "/" \o TwoDigits(t.month) \o "/"
                     \o TwoDigits(t.day)

\* the December branch staying in the year of d
month_end_same_year(d) ==
    LET t == ord2ymd(d)
    IN  IF t.month = 12 THEN ymd2ord(t.year, 1, 1) - 1
        ELSE ymd2ord(t.year, t.month + 1, 1) - 1

\* lines 470-476: last day of the month of d
month_end_of(d) ==
    LET t == ord2ymd(d)
    IN  IF t.month = 12 THEN ymd2ord(t.year + 1, 1, 1) - 1
        ELSE ymd2ord(t.year, t.month + 1, 1) - 1

\* a week period running into the next Monday
period_of_week_to_monday(d, gran) ==
    IF gran = "day" THEN [period_start |-> d, period_end |-> d]
    ELSE IF gran = "week" THEN [period_start |-> d, period_end |-> d + 7]
    ELSE [period_start |-> d, period_end |-> month_end_of(d)]

\* lines 463-476: the period [period_start, period_end] of the column of d
period_of(d, gran) ==
    IF gran = "day" THEN [period_start |-> d, period_end |-> d]
    ELSE IF gran = "week" THEN [period_start |-> d, period_end |-> d + 6]
    ELSE [period_start |-> d, period_end |-> month_end_of(d)]

\* the overlap test with strict comparisons
overlaps_strict(task_start, task_end, period) ==
    task_start < period.period_end /\ task_end > period.period_start

\* line 479: the task's period meets the column's period
overlaps(task_start, task_end, period) ==
    task_start <= period.period_end /\ task_end >= period.period_start

(***************************************************************************)
(* create_excel_gantt_chart (lines 296-521).  A worksheet is its title,    *)
(* its frozen pane and the cells the code touches, a function from         *)
(* <<row, column>> to the cell's value ("" for none) and the start_color   *)
(* of its solid fill ("" for no fill).  Fonts, borders, alignments,      *)
(* column widths and row heights are left out.                             *)
(***************************************************************************)
\* line 402: first bucket column
date_start_col == 5

\* line 352: fill of the header row
HEADER_FILL == "4472C4"

\* a cell the code gives no fill
NO_FILL == ""

Cell(v, f) == [value |-> v, fill |-> f]

\* lines 312-320: the workbook returned for an empty frame
empty_workbook ==
    << [title |-> "Gantt", freeze_panes |-> "none",
        cells |-> (<<1, 1>> :> Cell("NoData", NO_FILL))] >>

\* lines 376-409: header row
header_cell(col, date_list, gran) ==
    IF col = 1 THEN Cell("No.", HEADER_FILL)
    ELSE IF col = 2 THEN Cell("assignee", HEADER_FILL)
    ELSE IF col = 3 THEN Cell("category", HEADER_FILL)
    ELSE IF col = 4 THEN Cell("task", HEADER_FILL)
    ELSE Cell(strftime(date_list[col - date_start_col + 1], header_format_of(gran)),
              HEADER_FILL)

\* the row of one task numbered by its sheet row
task_cell_sheet_row_number(row_idx, col, task, periods, fill_color) ==
    IF col = 1 THEN Cell(row_idx, NO_FILL)
    ELSE IF col = 2 THEN Cell(task.assignee, NO_FILL)
    ELSE IF col = 3 THEN Cell(task.category, NO_FILL)
    ELSE IF col = 4
    THEN Cell(IF task.is_milestone THEN "* " \o task.title ELSE task.title, NO_FILL)
    ELSE IF task.start <= periods[col - date_start_col + 1].period_end
            /\ task["end"] >= periods[col - date_start_col + 1].period_start
    THEN Cell("", fill_color)
    ELSE Cell("", NO_FILL)

\* lines 420-480: the row of one task; row_idx is its sheet row, fill_color
\* the fill of lines 445-452 and periods the period of each bucket column
task_cell(row_idx, col, task, periods, fill_color) ==
    IF col = 1 THEN Cell(row_idx - 1, NO_FILL)
    ELSE IF col = 2 THEN Cell(task.assignee, NO_FILL)
    ELSE IF col = 3 THEN Cell(task.category, NO_FILL)
    ELSE IF col = 4
    THEN Cell(IF task.is_milestone THEN "* " \o task.title ELSE task.title, NO_FILL)
    ELSE IF overlaps(task.start, task["end"], periods[col - date_start_col + 1])
    THEN Cell("", fill_color)
    ELSE Cell("", NO_FILL)

\* lines 463-476 for every column of date_list
periods_of(date_list, gran) ==
    [i \in 1..Len(date_list) |-> period_of(date_list[i], gran)]

\* lines 322-487: the grid sheet
gantt_sheet(rows, date_list, gran, by) ==
    LET periods == periods_of(date_list, gran)
        fills   == [k \in 1..Len(rows) |-> fill_color_of(rows[k], by)]
        header  == [c \in 1..(date_start_col - 1 + Len(date_list)) |->
                        header_cell(c, date_list, gran)]
    IN  [title |-> "Gantt", freeze_panes |-> "E2",
         cells |->
            [rc \in (1..(Len(rows) + 1)) \X (1..(date_start_col - 1 + Len(date_list))) |->
                IF rc[1] = 1 THEN header[rc[2]]
                ELSE task_cell(rc[1], rc[2], rows[rc[1] - 1], periods,
                               fills[rc[1] - 1])]]

\* df["is_milestone"].sum()
RECURSIVE milestone_count(_)
milestone_count(rows) ==
    IF rows = <<>> THEN 0
    ELSE (IF Head(rows).is_milestone THEN 1 ELSE 0) + milestone_count(Tail(rows))

\* lines 489-516: the legend sheet
legend_sheet(rows, start_date, end_date, by) ==
    LET items       == color_map_of(by)
        summary_row == Len(items) + 5
        swatches    ==
            [rc \in (3..(Len(items) + 2)) \X (1..2) |->
                IF rc[2] = 1
                THEN Cell("", rgb_string(hex_to_rgb(items[rc[1] - 2][2])))
                ELSE Cell(items[rc[1] - 2][1], NO_FILL)]
    IN  [title |-> "Legend", freeze_panes |-> "none",
         cells |->
            (<<1, 1>> :> Cell("[Legend]", NO_FILL))
            @@ swatches
            @@ (<<summary_row, 1>> :> Cell("[Summary]", NO_FILL))
            @@ (<<summary_row + 1, 1>> :> Cell("Total:", NO_FILL))
            @@ (<<summary_row + 1, 2>> :> Cell(Len(rows), NO_FILL))
            @@ (<<summary_row + 2, 1>> :> Cell("Period:", NO_FILL))
            @@ (<<summary_row + 2, 2>> :>
                    Cell(strftime(start_date, "%Y/%m/%d") \o " - "
                             \o strftime(end_date, "%Y/%m/%d"), NO_FILL))
            @@ (<<summary_row + 3, 1>> :> Cell("Milestones:", NO_FILL))
            @@ (<<summary_row + 3, 2>> :> Cell(milestone_count(rows), NO_FILL))]

\* The outcome of a call: status "ok" and the saved workbook's sheets, with
\* the call's date_list and the period of each of its columns.  The source has
\* no raise statement and nothing it calls fails on these inputs.
create_excel_gantt_chart(rows, gran, by) ==
    IF rows = <<>>
    THEN [status |-> "ok", sheets |-> empty_workbook,
          date_list |-> <<>>, periods |-> <<>>]
    ELSE LET start_date == SeqMin(Column(rows, "start"))
             end_date   == SeqMax(Column(rows, "end"))
             date_list  == date_list_of(start_date, end_date, gran)
         IN  [status |-> "ok",
              sheets |-> << gantt_sheet(rows, date_list, gran, by),
                            legend_sheet(rows, start_date, end_date, by) >>,
              date_list |-> date_list,
              periods |-> periods_of(date_list, gran)]

(***************************************************************************)
(* The two callbacks: update_dashboard (lines 839-925) and download_excel   *)
(* (lines 943-988).  Each filters the loaded rows by the controls' values   *)
(* and sorts what is left.                                                  *)
(***************************************************************************)
DEFAULT_CATEGORY_ORDER ==
    <<"Platform", "UXFlow", "Content", "Promotion", "DataUse">>

DEFAULT_ASSIGNEE_ORDER == <<"Matsunaga", "Takayama">>

\* x or default, of a list
or_default(x, default) == IF x = <<>> THEN default ELSE x

\* line 543
min_date_of(rows) == SeqMin(Column(rows, "start"))

\* line 545
date_range_days_of(rows) == SeqMax(Column(rows, "end")) - min_date_of(rows)

\* lines 855-866: the rows that pass the five filters
update_dashboard_filter(rows, c) ==
    LET start_date == min_date_of(rows) + c.date_range[1]
        end_date == min_date_of(rows) + c.date_range[2]
        keep(r) == /\ r.quarter \in Range(c.quarters)
                   /\ r.assignee \in Range(c.assignees)
                   /\ r.category \in Range(c.categories)
                   /\ r.start >= start_date
                   /\ r.end <= end_date
    IN  SelectSeq(rows, keep)

\* lines 855-875: filtered_df of update_dashboard
update_dashboard_rows(rows, c) ==
    sort_dataframe(update_dashboard_filter(rows, c), c.sort_by, c.sort_order,
                   or_default(c.category_order, DEFAULT_CATEGORY_ORDER),
                   or_default(c.assignee_order, DEFAULT_ASSIGNEE_ORDER))

\* lines 958-968: the rows that pass the five filters
download_excel_filter(rows, c) ==
    LET start_date == min_date_of(rows) + c.date_range[1]
        end_date == min_date_of(rows) + c.date_range[2]
        keep(r) == /\ r.quarter \in Range(c.quarters)
                   /\ r.assignee \in Range(c.assignees)
                   /\ r.category \in Range(c.categories)
                   /\ r.start >= start_date
                   /\ r.end <= end_date
    IN  SelectSeq(rows, keep)

\* the export sorting by the default orders whatever the controls say
download_excel_default_orders(rows, c) ==
    sort_dataframe(download_excel_filter(rows, c), c.sort_by, c.sort_order,
                   DEFAULT_CATEGORY_ORDER, DEFAULT_ASSIGNEE_ORDER)

\* lines 958-977: filtered_df of download_excel
download_excel_rows(rows, c) ==
    sort_dataframe(download_excel_filter(rows, c), c.sort_by, c.sort_order,
                   or_default(c.category_order, DEFAULT_CATEGORY_ORDER),
                   or_default(c.assignee_order, DEFAULT_ASSIGNEE_ORDER))

(***************************************************************************)
(* Inputs of the model.                                                    *)
(***************************************************************************)
\* load_data, line 84: task_id = 1..len(df); the title names the task
with_ids(protos) ==
    [i \in 1..Len(protos) |->
        protos[i] @@ [task_id |-> i, title |-> "Task" \o ToString(i)]]

Dfs(Protos) ==
    {with_ids(ps) : ps \in UNION {[1..n -> Protos] : n \in 0..MaxTasks}}

SortStarts == {ymd2ord(2026, 3, 10), ymd2ord(2026, 3, 11)}

SortProtos ==
    [assignee : {"Alpha", "Beta", "Gamma"}, category : {"UXFlow", "Other"},
     start : SortStarts, end : {ymd2ord(2026, 3, 11)}, is_milestone : {FALSE}]

\* a list longer than the rank given to unlisted names
LongOrder == [i \in 1..LongOrderLen |-> "N" \o ToString(i)]

AssigneeOrders == {<<>>, <<"Beta", "Alpha">>, <<"Alpha">>}

LongOrders == {LongOrder}

CategoryOrders == {<<"UXFlow">>, <<"Other", "UXFlow">>}

SortKeys == {"start", "assignee", "category"}

SortOrders == {"asc", "desc"}

NoExcel == [status |-> "none"]

IdleSort ==
    /\ sort_by = "none"
    /\ sort_order = "none"
    /\ category_order = <<>>
    /\ assignee_order = <<>>
    /\ order_col = <<>>
    /\ result_df = <<>>

IdleExcel ==
    /\ granularity = "none"
    /\ color_by = "none"
    /\ excel = NoExcel

NoControls ==
    [quarters |-> <<>>, assignees |-> <<>>, categories |-> <<>>,
     date_range |-> <<0, 0>>, sort_by |-> "none", sort_order |-> "none",
     category_order |-> <<>>, assignee_order |-> <<>>,
     granularity |-> "none", color_by |-> "none"]

IdleApp ==
    /\ controls = NoControls
    /\ dashboard_df = <<>>
    /\ download_df = <<>>

(***************************************************************************)
(* Specification of the sort engine: any call of sort_dataframe on any     *)
(* task list.                                                              *)
(***************************************************************************)
InitSort ==
    /\ df \in Dfs(SortProtos)
    /\ IdleSort
    /\ IdleExcel
    /\ IdleApp
    /\ pc = "input"

SortCall(AsgOrders) ==
    \E by \in SortKeys, ord \in SortOrders,
       co \in CategoryOrders, ao \in AsgOrders :
        /\ pc = "input"
        /\ sort_by' = by
        /\ sort_order' = ord
        /\ category_order' = co
        /\ assignee_order' = ao
        /\ order_col' = IF by = "assignee"
                        THEN order_column(df, "assignee", ao)
                        ELSE IF by = "category"
                        THEN order_column(df, "category", co)
                        ELSE <<>>
        /\ result_df' = sort_dataframe(df, by, ord, co, ao)
        /\ pc' = "sorted"
        /\ UNCHANGED <<df, granularity, color_by, excel, appVars>>

SortDataframe == SortCall(AssigneeOrders)

NextSort == SortDataframe

SpecSort == InitSort /\ [][NextSort]_vars

\* the same call with an assignee order list of LongOrderLen names
SortDataframeLong == SortCall(LongOrders)

NextSortLong == SortDataframeLong

SpecSortLong == InitSort /\ [][NextSortLong]_vars

(***************************************************************************)
(* Specification of the export: any call of create_excel_gantt_chart on    *)
(* any task list.  load_data does not compare a row's two dates, so a row  *)
(* may end before it starts.                                               *)
(***************************************************************************)
ExcelStarts ==
    {ymd2ord(2023, 12, 31), ymd2ord(2024, 1, 1),
     ymd2ord(2024, 2, 29), ymd2ord(2024, 3, 1)}

\* end - start of a row
ExcelSpans == {-1, 0, 1}

\* a mapped assignee with an unmapped category, on every start and span
MappedAssigneeRows ==
    {[assignee |-> "Matsunaga", category |-> "Other", is_milestone |-> FALSE,
      start |-> st, end |-> st + sp] : st \in ExcelStarts, sp \in ExcelSpans}

\* an unmapped assignee with a mapped category, a milestone, on two periods
MappedCategoryRows ==
    {[assignee |-> "Guest", category |-> "UXFlow", is_milestone |-> TRUE,
      start |-> ymd2ord(2024, 1, 1), end |-> ymd2ord(2024, 1, 1) + sp] :
        sp \in {0, 1}}

ExcelProtos == MappedAssigneeRows \cup MappedCategoryRows

Granularities == {"day", "week", "month"}

ColorBys == {"category", "assignee"}

InitExcel ==
    /\ df \in Dfs(ExcelProtos)
    /\ IdleSort
    /\ IdleExcel
    /\ IdleApp
    /\ pc = "input"

CreateExcelGanttChart ==
    \E gran \in Granularities, by \in ColorBys :
        /\ pc = "input"
        /\ granularity' = gran
        /\ color_by' = by
        /\ excel' = create_excel_gantt_chart(df, gran, by)
        /\ pc' = "exported"
        /\ UNCHANGED <<df, sort_by, sort_order, category_order, assignee_order,
                       order_col, result_df, appVars>>

NextExcel == CreateExcelGanttChart

SpecExcel == InitExcel /\ [][NextExcel]_vars

(***************************************************************************)
(* Specification of the application: the rows are loaded, a change of the  *)
(* controls runs update_dashboard, and a click on the download button runs *)
(* download_excel on the controls' values at that moment.                  *)
(***************************************************************************)
AppProtos ==
    {[assignee |-> "Matsunaga", category |-> "UXFlow", quarter |-> "Q1",
      is_milestone |-> FALSE,
      start |-> ymd2ord(2026, 1, 5), end |-> ymd2ord(2026, 1, 6)],
     [assignee |-> "Takayama", category |-> "Platform", quarter |-> "Q1",
      is_milestone |-> TRUE,
      start |-> ymd2ord(2026, 1, 13), end |-> ymd2ord(2026, 1, 13)],
     [assignee |-> "Guest", category |-> "Other", quarter |-> "Q2",
      is_milestone |-> FALSE,
      start |-> ymd2ord(2026, 1, 5), end |-> ymd2ord(2026, 1, 13)],
     [assignee |-> "Takayama", category |-> "UXFlow", quarter |-> "Q2",
      is_milestone |-> FALSE,
      start |-> ymd2ord(2026, 1, 12), end |-> ymd2ord(2026, 1, 14)],
     [assignee |-> "Matsunaga", category |-> "Other", quarter |-> "Q1",
      is_milestone |-> FALSE,
      start |-> ymd2ord(2026, 1, 13), end |-> ymd2ord(2026, 1, 14)]}

\* line 540: the file holds at least one row
AppDfs == {d \in Dfs(AppProtos) : d # <<>>}

QuarterChoices == {<<"Q1", "Q2">>, <<"Q1">>}

AssigneeChoices == {<<"Matsunaga", "Takayama", "Guest">>, <<"Matsunaga", "Guest">>}

CategoryChoices == {<<"UXFlow", "Platform", "Other">>}

\* lines 729-734: the slider starts at [0, date_range_days] and moves by 7
DateRanges(days) ==
    {<<0, days>>} \cup (IF days >= 7 THEN {<<7, days>>} ELSE {})

AppCategoryOrders == {<<>>, <<"Other", "UXFlow">>}

AppAssigneeOrders == {<<>>, <<"Takayama", "Matsunaga">>}

InitApp ==
    /\ df \in AppDfs
    /\ IdleSort
    /\ IdleExcel
    /\ IdleApp
    /\ pc = "input"

UpdateDashboard ==
    \E q \in QuarterChoices, a \in AssigneeChoices, c \in CategoryChoices,
       dr \in DateRanges(date_range_days_of(df)),
       by \in SortKeys, ord \in SortOrders,
       co \in AppCategoryOrders, ao \in AppAssigneeOrders :
        /\ pc = "input"
        /\ controls' = [quarters |-> q, assignees |-> a, categories |-> c,
                        date_range |-> dr, sort_by |-> by, sort_order |-> ord,
                        category_order |-> co, assignee_order |-> ao,
                        granularity |-> "week", color_by |-> "category"]
        /\ dashboard_df' = update_dashboard_rows(df, controls')
        /\ pc' = "rendered"
        /\ UNCHANGED <<df, sortVars, excelVars, download_df>>

DownloadExcel ==
    /\ pc = "rendered"
    /\ download_df' = download_excel_rows(df, controls)
    /\ granularity' = controls.granularity
    /\ color_by' = controls.color_by
    /\ excel' = create_excel_gantt_chart(download_df', granularity', color_by')
    /\ pc' = "downloaded"
    /\ UNCHANGED <<df, sortVars, controls, dashboard_df>>

NextApp == UpdateDashboard \/ DownloadExcel

SpecApp == InitApp /\ [][NextApp]_vars

(***************************************************************************)
(* Specification of the export by month over more than a year: the rows    *)
(* start in a February of 28 days, in April, in December and in a February *)
(* of 29 days.                                                             *)
(***************************************************************************)
MonthStarts ==
    {ymd2ord(2023, 2, 28), ymd2ord(2023, 4, 30),
     ymd2ord(2023, 12, 31), ymd2ord(2024, 2, 29)}

MonthSpans == {0, 1}

MonthProtos ==
    {[assignee |-> "Matsunaga", category |-> "UXFlow", is_milestone |-> FALSE,
      start |-> st, end |-> st + sp] : st \in MonthStarts, sp \in MonthSpans}

InitMonth ==
    /\ df \in Dfs(MonthProtos)
    /\ IdleSort
    /\ IdleExcel
    /\ IdleApp
    /\ pc = "input"

CreateExcelGanttChartByMonth ==
    \E by \in ColorBys :
        /\ pc = "input"
        /\ granularity' = "month"
        /\ color_by' = by
        /\ excel' = create_excel_gantt_chart(df, "month", by)
        /\ pc' = "exported"
        /\ UNCHANGED <<df, sortVars, appVars>>

NextMonth == CreateExcelGanttChartByMonth

SpecMonth == InitMonth /\ [][NextMonth]_vars

(***************************************************************************)
(* Properties of sort_dataframe.                                           *)
(***************************************************************************)
Categorical == sort_by \in {"assignee", "category"}

\* the OrderSpec of the key the call sorts by
ActiveOrder == IF sort_by = "assignee" THEN assignee_order ELSE category_order

Listed(t) == t[sort_by] \in Range(ActiveOrder)

\* position in the output of the task at position i of the input
Pos(i) == CHOOSE k \in 1..Len(result_df) : result_df[k].task_id = df[i].task_id

\* index of a listed name in the order list, counted from 0
IndexIn(order, x) ==
    CHOOSE n \in 0..(Len(order) - 1) :
        order[n + 1] = x /\ \A m \in 0..(n - 1) : order[m + 1] # x

\* C3 (as stated): on a categorical sort, in both directions, every task
\* whose name is listed in the OrderSpec precedes every task whose name is not.
C3_ListedBeforeUnlisted ==
    (pc = "sorted" /\ Categorical) =>
        \A i, j \in 1..Len(result_df) :
            (Listed(result_df[i]) /\ ~Listed(result_df[j])) => i < j

\* C4: the direction applies to the primary key only: rows with equal start
\* are in ascending assignee order on a start sort, and rows with equal rank
\* are in ascending start order on a categorical sort, for asc and desc alike.
C4_DirectionPrimaryOnly ==
    pc = "sorted" =>
        \A i, j \in 1..Len(result_df) :
            i < j =>
                /\ (sort_by = "start" /\ result_df[i].start = result_df[j].start)
                       => ~StrLt(result_df[j].assignee, result_df[i].assignee)
                /\ (Categorical
                    /\ custom_order(ActiveOrder, result_df[i][sort_by])
                         = custom_order(ActiveOrder, result_df[j][sort_by]))
                       => result_df[i].start <= result_df[j].start

\* a descending start sort put two rows of equal start, given as Beta then
\* Alpha, into ascending assignee order
C4_Witness ==
    /\ pc = "sorted" /\ sort_by = "start" /\ sort_order = "desc"
    /\ Len(df) = 2
    /\ df[1].start = df[2].start
    /\ df[1].assignee = "Beta" /\ df[2].assignee = "Alpha"
    /\ result_df[1].assignee = "Alpha"

\* primary and secondary key of input row i under the call's sort key
PrimaryKey(i) ==
    IF sort_by = "start" THEN df[i].start
    ELSE custom_order(ActiveOrder, df[i][sort_by])

SecondaryKey(i) == IF sort_by = "start" THEN df[i].assignee ELSE df[i].start

\* C5: the sort is stable: two tasks equal on the primary and the secondary
\* key are in the output in their input order, for every key and direction.
C5_Stable ==
    pc = "sorted" =>
        \A i, j \in 1..Len(df) :
            (i < j /\ PrimaryKey(i) = PrimaryKey(j)
                   /\ SecondaryKey(i) = SecondaryKey(j)) => Pos(i) < Pos(j)

\* a descending sort of two tasks equal on both keys and different otherwise
C5_Witness ==
    /\ pc = "sorted" /\ sort_order = "desc" /\ sort_by = "assignee"
    /\ Len(df) = 2
    /\ PrimaryKey(1) = PrimaryKey(2) /\ SecondaryKey(1) = SecondaryKey(2)
    /\ df[1].category # df[2].category
    /\ result_df[1] = df[1] /\ result_df[2] = df[2]

\* C6 (as stated): on a categorical sort, tasks whose name is not listed keep
\* their relative input order, whatever their start dates.
C6_UnlistedKeepInputOrder ==
    (pc = "sorted" /\ Categorical) =>
        \A i, j \in 1..Len(df) :
            (i < j /\ ~Listed(df[i]) /\ ~Listed(df[j])) => Pos(i) < Pos(j)

\* C6 (amended): on a categorical sort, tasks whose name is not listed are
\* ordered among themselves by ascending start, and those with the same start
\* keep their relative input order.
C6_UnlistedByStartThenInput ==
    (pc = "sorted" /\ Categorical) =>
        \A i, j \in 1..Len(df) :
            (~Listed(df[i]) /\ ~Listed(df[j])) =>
                /\ df[i].start < df[j].start => Pos(i) < Pos(j)
                /\ (df[i].start = df[j].start /\ i < j) => Pos(i) < Pos(j)

\* two unlisted tasks of different names, the later one first in the input
C6_Witness ==
    /\ pc = "sorted" /\ Categorical
    /\ Len(df) = 2
    /\ ~Listed(df[1]) /\ ~Listed(df[2])
    /\ df[1][sort_by] # df[2][sort_by]
    /\ df[1].start > df[2].start
    /\ result_df[1].task_id = 2

\* C7 (as stated): the rank of a listed name is its index in the order list,
\* and the rank of an unlisted name is greater than len(order) - 1, for an
\* order list of any length.
C7_RankContract ==
    (pc = "sorted" /\ Categorical) =>
        \A i \in 1..Len(df) :
            IF Listed(df[i])
            THEN order_col[i] = IndexIn(ActiveOrder, df[i][sort_by])
            ELSE order_col[i] > Len(ActiveOrder) - 1

(***************************************************************************)
(* Properties of create_excel_gantt_chart.                                 *)
(***************************************************************************)
Exported == pc = "exported" /\ df # <<>>

MinStart == SeqMin(Column(df, "start"))

MaxEnd == SeqMax(Column(df, "end"))

WellFormed == \A k \in 1..Len(df) : df[k].start <= df[k]["end"]

NBuckets == Len(excel.date_list)

\* the bucket of column i as the data model defines it
BucketStart(i) == excel.date_list[i]

BucketEnd(i) ==
    LET d == excel.date_list[i]
        t == ord2ymd(d)
    IN  IF granularity = "day" THEN d
        ELSE IF granularity = "week" THEN d + 6
        ELSE ymd2ord(t.year, t.month, days_in_month(t.year, t.month))

\* the cell of task k (k-th row of the input) under bucket i is filled
Filled(k, i) ==
    excel.sheets[1].cells[<<k + 1, date_start_col + i - 1>>].fill # NO_FILL

\* C1: at every granularity the cell of a task under a bucket is filled
\* exactly when task.start <= bucket_end and task.end >= bucket_start.
C1_FilledIffOverlap ==
    Exported =>
        \A k \in 1..Len(df), i \in 1..NBuckets :
            Filled(k, i) <=>
                (df[k].start <= BucketEnd(i) /\ df[k]["end"] >= BucketStart(i))

\* month buckets: a task that began earlier and ends on a bucket's first day
\* is filled there; a task starting the day after a bucket's last day is not
C1_Witness ==
    /\ Exported /\ granularity = "month"
    /\ \E k \in 1..Len(df), i \in 1..NBuckets :
          /\ df[k].start < BucketStart(i) /\ df[k]["end"] = BucketStart(i)
          /\ Filled(k, i)
    /\ \E k \in 1..Len(df), i \in 1..NBuckets :
          /\ df[k].start = BucketEnd(i) + 1
          /\ ~Filled(k, i)

\* C2: for a non-empty list of tasks with start <= end, the buckets are
\* strictly increasing in start, each starts the day after the previous one
\* ends, none overlap, and together they cover [min start, max end].
C2_BucketsContiguousCover ==
    (Exported /\ WellFormed) =>
        LET p == excel.periods
        IN  /\ \A i \in 1..Len(p) : p[i].period_start <= p[i].period_end
            /\ \A i \in 1..(Len(p) - 1) :
                  /\ p[i].period_start < p[i + 1].period_start
                  /\ p[i + 1].period_start = p[i].period_end + 1
            /\ \A i, j \in 1..Len(p) :
                  i < j => p[i].period_end < p[j].period_start
            /\ (MinStart..MaxEnd) \subseteq
                  UNION {p[i].period_start..p[i].period_end : i \in 1..Len(p)}

\* week buckets over a range that starts mid-week and spans several weeks
C2_Witness ==
    /\ Exported /\ WellFormed /\ granularity = "week"
    /\ weekday(MinStart) # 0
    /\ Len(excel.periods) >= 2
    /\ excel.periods[1].period_start < MinStart

\* C8 (as stated): when min(start) > max(end) the call fails with InvalidRange
\* and returns no workbook.
C8_InvertedRangeFails ==
    (Exported /\ MinStart > MaxEnd) =>
        excel.status = "InvalidRange" /\ excel.sheets = <<>>

\* C9 (as stated): for an empty task list the call returns, without error, a
\* workbook of two sheets whose first sheet carries the no-data marker and has
\* no bucket column and no task row.
C9_EmptyTwoSheets ==
    (pc = "exported" /\ df = <<>>) =>
        /\ excel.status = "ok"
        /\ Len(excel.sheets) = 2
        /\ excel.sheets[1].cells[<<1, 1>>].value = "NoData"
        /\ DOMAIN excel.sheets[1].cells = {<<1, 1>>}

\* the colour of each key of the two maps (lines 35-41 and 53-56) as a cell
\* fill shows it, and 999999 for a value that is no key of the active map
ExpectedColor(task) ==
    LET v == task[color_by]
    IN  IF color_by = "category"
        THEN CASE v = "Platform"  -> "3498DB"
               [] v = "UXFlow"    -> "9B59B6"
               [] v = "Content"   -> "E74C3C"
               [] v = "Promotion" -> "F39C12"
               [] v = "DataUse"   -> "2ECC71"
               [] OTHER           -> "999999"
        ELSE CASE v = "Matsunaga" -> "2980B9"
               [] v = "Takayama"  -> "C0392B"
               [] OTHER           -> "999999"

\* the period of column i meets the task's dates
Occupied(k, i) ==
    /\ df[k].start <= excel.periods[i].period_end
    /\ df[k]["end"] >= excel.periods[i].period_start

\* C10: every filled cell of a task row has the colour the active map gives
\* the task's color-by value, or #999999 when the map has no entry; the export
\* does not fail and every occupied cell is filled.
C10_FillColor ==
    Exported =>
        /\ excel.status = "ok"
        /\ \A k \in 1..Len(df), i \in 1..NBuckets :
              LET f == excel.sheets[1].cells[<<k + 1, date_start_col + i - 1>>].fill
              IN  /\ Occupied(k, i) => f # NO_FILL
                  /\ f # NO_FILL => f = ExpectedColor(df[k])

\* coloured by assignee: a row of an assignee without a map entry is filled
\* with 999999 and a row of a mapped assignee with its map colour
C10_Witness ==
    /\ Exported /\ color_by = "assignee"
    /\ \E k \in 1..Len(df), i \in 1..NBuckets :
          /\ df[k].assignee = "Guest"
          /\ excel.sheets[1].cells[<<k + 1, date_start_col + i - 1>>].fill
                = "999999"
    /\ \E k \in 1..Len(df), i \in 1..NBuckets :
          /\ df[k].assignee = "Matsunaga"
          /\ excel.sheets[1].cells[<<k + 1, date_start_col + i - 1>>].fill
                = "2980B9"

(***************************************************************************)
(* Layout of the grid sheet.                                               *)
(***************************************************************************)
GridCells == excel.sheets[1].cells

\* the title cell of a task: its title, after the star of line 439 when the
\* task is a milestone
TitleLabel(task) == IF task.is_milestone THEN "* " \o task.title ELSE task.title

\* C11: the header is row 1; the k-th task of the input is in row k+1 with
\* number k, its assignee, its category and its title (starred for a
\* milestone) in columns 1-4; the cell of bucket i is in column 4+i for every
\* task, the column whose row-1 cell is the label of bucket i; the sheet has
\* no other row or column.
C11_GridLayout ==
    Exported =>
        /\ DOMAIN GridCells = (1..(Len(df) + 1)) \X (1..(4 + NBuckets))
        /\ GridCells[<<1, 1>>].value = "No."
        /\ GridCells[<<1, 2>>].value = "assignee"
        /\ GridCells[<<1, 3>>].value = "category"
        /\ GridCells[<<1, 4>>].value = "task"
        /\ \A i \in 1..NBuckets :
              GridCells[<<1, 4 + i>>].value
                  = strftime(excel.date_list[i], header_format_of(granularity))
        /\ \A k \in 1..Len(df) :
              /\ GridCells[<<k + 1, 1>>].value = k
              /\ GridCells[<<k + 1, 2>>].value = df[k].assignee
              /\ GridCells[<<k + 1, 3>>].value = df[k].category
              /\ GridCells[<<k + 1, 4>>].value = TitleLabel(df[k])
              /\ \A c \in 1..4 : GridCells[<<k + 1, c>>].fill = NO_FILL
              /\ \A i \in 1..NBuckets :
                    (GridCells[<<k + 1, 4 + i>>].fill # NO_FILL) <=> Occupied(k, i)

\* two different tasks over several buckets, the second filled under a later
\* bucket only
C11_Witness ==
    /\ Exported /\ Len(df) = 2 /\ NBuckets >= 3
    /\ df[1].assignee # df[2].assignee
    /\ GridCells[<<3, 1>>].value = 2
    /\ GridCells[<<3, 5>>].fill = NO_FILL
    /\ \E i \in 2..NBuckets : GridCells[<<3, 4 + i>>].fill # NO_FILL
    /\ GridCells[<<2, 5>>].fill # NO_FILL

(***************************************************************************)
(* Header labels.                                                          *)
(***************************************************************************)
\* MM/DD and YYYY/MM of a date
MonthDay(d) == LET t == ord2ymd(d) IN TwoDigits(t.month) \o "/" \o TwoDigits(t.day)

YearMonth(d) == LET t == ord2ymd(d) IN ToString(t.year) \o "/" \o TwoDigits(t.month)

\* English three-letter name of the weekday of a date (ordinal 1 is a Monday)
WeekdayName(d) ==
    CASE d % 7 = 1 -> "Mon" [] d % 7 = 2 -> "Tue" [] d % 7 = 3 -> "Wed"
      [] d % 7 = 4 -> "Thu" [] d % 7 = 5 -> "Fri" [] d % 7 = 6 -> "Sat"
      [] d % 7 = 0 -> "Sun"

HeaderLabel(i) == GridCells[<<1, 4 + i>>].value

\* C12 (as stated): the label of a bucket column is MM/DD of the day (day),
\* MM/DD of the bucket's Monday (week) or YYYY/MM (month), and nothing else.
C12_LabelDateOnly ==
    Exported =>
        \A i \in 1..NBuckets :
            LET d == excel.date_list[i]
            IN  IF granularity = "day" THEN HeaderLabel(i) = MonthDay(d)
                ELSE IF granularity = "week"
                THEN HeaderLabel(i) = MonthDay(d) /\ d % 7 = 1
                ELSE HeaderLabel(i) = YearMonth(d)

\* C12 (amended): the label is, for day granularity, MM/DD of the day followed
\* by a line break and the weekday's three-letter name in parentheses; for
\* week granularity MM/DD of the bucket's Monday; for month granularity YYYY/MM.
C12_LabelByGranularity ==
    Exported =>
        \A i \in 1..NBuckets :
            LET d == excel.date_list[i]
            IN  IF granularity = "day"
                THEN HeaderLabel(i) = MonthDay(d) \o "\n(" \o WeekdayName(d) \o ")"
                ELSE IF granularity = "week"
                THEN HeaderLabel(i) = MonthDay(d) /\ d % 7 = 1
                ELSE HeaderLabel(i) = YearMonth(d)

\* a day grid whose first two columns are Sunday 12/31 and Monday 01/01
C12_Witness ==
    /\ Exported /\ granularity = "day" /\ NBuckets >= 2
    /\ HeaderLabel(1) = "12/31\n(Sun)"
    /\ HeaderLabel(2) = "01/01\n(Mon)"

(***************************************************************************)
(* The two callbacks on one request.                                       *)
(***************************************************************************)
TaskOrder(rows) == Column(rows, "task_id")

\* C13: for the same values of the controls (filters, sort key, direction,
\* category order, assignee order) the rows update_dashboard hands to the
\* chart and the rows download_excel hands to the export are the same tasks
\* in the same order.
C13_SameOrderBothPaths ==
    pc = "downloaded" =>
        /\ TaskOrder(download_df) = TaskOrder(dashboard_df)
        /\ download_df = dashboard_df

\* both callbacks ran on a request whose custom assignee order reverses the
\* two loaded rows
C13_Witness ==
    /\ pc = "downloaded"
    /\ controls.sort_by = "assignee"
    /\ controls.assignee_order = <<"Takayama", "Matsunaga">>
    /\ Len(df) = 2
    /\ df[1].assignee = "Matsunaga" /\ df[2].assignee = "Takayama"
    /\ controls.quarters = <<"Q1", "Q2">>
    /\ controls.assignees = <<"Matsunaga", "Takayama", "Guest">>
    /\ controls.date_range[1] = 0
    /\ TaskOrder(download_df) = <<2, 1>>
    /\ TaskOrder(dashboard_df) = <<2, 1>>

(***************************************************************************)
(* Frame of sort_dataframe.                                                *)
(***************************************************************************)
\* C14: a call of sort_dataframe leaves its input as it was and returns a
\* sequence of the same length in which every input task occurs exactly once,
\* field for field as in the input (so no helper rank field is left on it);
\* an empty input gives an empty output.  This holds for every sort key and
\* direction.
C14_SortFrame ==
    [][(pc = "input" /\ pc' = "sorted") =>
          /\ df' = df
          /\ Len(result_df') = Len(df)
          /\ \A i \in 1..Len(df) :
                Cardinality({k \in 1..Len(result_df') : result_df'[k] = df[i]}) = 1
          /\ \A k \in 1..Len(result_df') :
                DOMAIN result_df'[k] = DOMAIN df[1]
          /\ (df = <<>> => result_df' = <<>>)]_vars

\* a categorical sort, for which a helper rank column was built, that returned
\* the two input tasks in the other order
C14_Witness ==
    /\ pc = "sorted"
    /\ Categorical
    /\ Len(order_col) = 2
    /\ Len(df) = 2
    /\ result_df = <<df[2], df[1]>>
    /\ df[1] # df[2]

(***************************************************************************)
(* Week and month buckets.                                                 *)
(***************************************************************************)
\* ordinal 1 is Monday 0001-01-01
IsMonday(d) == d % 7 = 1

\* the example of the data model: a range starting Thursday 2026/01/01 with a
\* task 01/05-01/09, exported by week
ScenarioRows ==
    with_ids(<<[assignee |-> "Matsunaga", category |-> "UXFlow",
                is_milestone |-> FALSE,
                start |-> ymd2ord(2026, 1, 1), end |-> ymd2ord(2026, 1, 2)],
               [assignee |-> "Takayama", category |-> "UXFlow",
                is_milestone |-> FALSE,
                start |-> ymd2ord(2026, 1, 5), end |-> ymd2ord(2026, 1, 9)]>>)

ScenarioWeekExport == create_excel_gantt_chart(ScenarioRows, "week", "category")

\* C15: at week granularity, for tasks with start <= end, the first bucket
\* starts on the Monday on or before min(task.start), every bucket is
\* [Monday, Monday + 6], consecutive bucket starts differ by exactly 7 days,
\* and the last bucket contains max(task.end).  For the range starting
\* Thursday 2026/01/01 the first bucket starts Monday 2025/12/29 and the task
\* 01/05-01/09 fills the second bucket only.
C15_WeekBuckets ==
    /\ (Exported /\ WellFormed /\ granularity = "week") =>
          LET p == excel.periods
              n == Len(p)
          IN  /\ n >= 1
              /\ IsMonday(p[1].period_start)
              /\ p[1].period_start <= MinStart
              /\ MinStart - p[1].period_start <= 6
              /\ \A i \in 1..n :
                    /\ IsMonday(p[i].period_start)
                    /\ p[i].period_end = p[i].period_start + 6
                    /\ excel.date_list[i] = p[i].period_start
              /\ \A i \in 1..(n - 1) :
                    p[i + 1].period_start - p[i].period_start = 7
              /\ p[n].period_start <= MaxEnd /\ MaxEnd <= p[n].period_end
    /\ LET x == ScenarioWeekExport
       IN  /\ x.date_list = <<ymd2ord(2025, 12, 29), ymd2ord(2026, 1, 5)>>
           /\ x.sheets[1].cells[<<3, 5>>].fill = NO_FILL
           /\ x.sheets[1].cells[<<3, 6>>].fill # NO_FILL

\* a week grid whose first Monday precedes every task (the earliest task
\* starts on a Sunday) and whose second task fills the second bucket only
C15_Witness ==
    /\ Exported /\ WellFormed /\ granularity = "week"
    /\ NBuckets = 2
    /\ MinStart % 7 = 0
    /\ BucketStart(1) = MinStart - 6
    /\ Len(df) = 2
    /\ ~Filled(2, 1) /\ Filled(2, 2)
    /\ Filled(1, 1) /\ ~Filled(1, 2)

\* number of days of a month of the Gregorian calendar
MonthLength(y, m) ==
    IF m \in {1, 3, 5, 7, 8, 10, 12} THEN 31
    ELSE IF m \in {4, 6, 9, 11} THEN 30
    ELSE IF (y % 4 = 0 /\ y % 100 # 0) \/ y % 400 = 0 THEN 29
    ELSE 28

\* C16: at month granularity, for tasks with start <= end, the first bucket
\* starts on the 1st of the month of min(task.start), each bucket ends on the
\* last calendar day of its month (28, 29, 30 or 31), each next bucket is the
\* next calendar month, and a December bucket ends on 31 December and is
\* followed by January of the next year.
C16_MonthBuckets ==
    (Exported /\ WellFormed /\ granularity = "month") =>
        LET p == excel.periods
            n == Len(p)
            s(i) == ord2ymd(p[i].period_start)
            e(i) == ord2ymd(p[i].period_end)
            first == ord2ymd(MinStart)
        IN  /\ n >= 1
            /\ s(1).year = first.year /\ s(1).month = first.month
            /\ \A i \in 1..n :
                  /\ s(i).day = 1
                  /\ excel.date_list[i] = p[i].period_start
                  /\ e(i).year = s(i).year /\ e(i).month = s(i).month
                  /\ e(i).day = MonthLength(s(i).year, s(i).month)
                  /\ p[i].period_end - p[i].period_start
                        = MonthLength(s(i).year, s(i).month) - 1
                  /\ s(i).month = 12 => e(i).day = 31
            /\ \A i \in 1..(n - 1) :
                  IF s(i).month = 12
                  THEN s(i + 1).year = s(i).year + 1 /\ s(i + 1).month = 1
                  ELSE s(i + 1).year = s(i).year /\ s(i + 1).month = s(i).month + 1

\* a month grid from February 2023 (28 days) through April (30 days) and
\* December 2023 - January 2024 to February 2024 (29 days)
C16_Witness ==
    /\ Exported /\ WellFormed /\ granularity = "month"
    /\ NBuckets >= 13
    /\ excel.periods[1].period_start = ymd2ord(2023, 2, 1)
    /\ excel.periods[1].period_end = ymd2ord(2023, 2, 28)
    /\ excel.periods[3].period_end = ymd2ord(2023, 4, 30)
    /\ excel.periods[11].period_end = ymd2ord(2023, 12, 31)
    /\ excel.periods[12].period_start = ymd2ord(2024, 1, 1)
    /\ excel.periods[13].period_end = ymd2ord(2024, 2, 29)

(***************************************************************************)
(* Single-day tasks.                                                       *)
(***************************************************************************)
FilledCells(k) == {i \in 1..NBuckets : Filled(k, i)}

\* C17: the row of a task with start = end has exactly one filled cell, at
\* day, week and month granularity alike, whatever the other rows of the grid
\* are.
C17_SingleDayOneCell ==
    Exported =>
        \A k \in 1..Len(df) :
            df[k].start = df[k]["end"] => Cardinality(FilledCells(k)) = 1

\* a week grid of several buckets in which a single-day task that falls on a
\* Monday shares the grid with a longer task that starts the week before
C17_Witness ==
    /\ Exported /\ granularity = "week"
    /\ Len(df) = 2 /\ NBuckets >= 2
    /\ df[2].start = df[2]["end"] /\ df[2].start % 7 = 1
    /\ df[1].start < df[2].start /\ df[1].start < df[1]["end"]
    /\ FilledCells(2) = {2}
    /\ FilledCells(1) = {1, 2}

============================================================================
